---- MODULE Spec2Model ----
(***************************************************************************)
(* Model of the rule-based signal and backtest engine                      *)
(* (src/strategy_backtester.py) and of the theory runner                   *)
(* (src/financial_theory_tester.py).                                       *)
(*                                                                         *)
(* Prices, cash and percentages are integers; every comparison of a ratio  *)
(* is done by cross-multiplication, i.e. in exact arithmetic, which is     *)
(* what Python floats compute on the small integers of Spec.  The binary   *)
(* rounding of floats is modelled for the purchase alone, under FloatSpec. *)
(* A date is the 1-based position of its bar in the frame:                 *)
(* df.loc[:date, 'Close'] is SubSeq(Close, 1, date).                       *)
(***************************************************************************)
EXTENDS Integers, Sequences, FiniteSets, TLC

\* ------------------------------------------------------------------ bounds
MaxTail == 2         \* longest run of free closes ending a series
MaxConds == 2        \* most conditions of a strategy, buy and sell together
MaxMonths == 13      \* most calendar months a fetched frame spans
MaxWords == 7        \* most words and numerals of a strategy text
Significand == 3     \* bits of the significand of a float (53 in a double)
MaxValue == 16       \* largest capital and close of a purchase in floats

\* ------------------------------------------------------- program constants
rolling_window == 20
period == 14
trading_days == 252
default_capital == 10000

\* ------------------------------------------------------------ input domain
Prices == {1, 2, 3}
\* initial_capital: the numeral before a capital keyword, 0 included.
Capitals == {0, 1, 7}

BuyConds ==
  { [type |-> "dip", percent |-> 30],
    [type |-> "price_below", price |-> 3],
    [type |-> "rsi_below", value |-> 50] }

SellConds ==
  { [type |-> "rise", percent |-> 50],
    [type |-> "price_above", price |-> 1],
    [type |-> "rsi_above", value |-> 50] }

\* The lists of at most n elements of S.
RECURSIVE ListsOf(_, _)
ListsOf(S, n) ==
  IF n = 0 THEN { <<>> }
  ELSE LET shorter == ListsOf(S, n - 1)
       IN  shorter \cup { Append(l, c) : l \in { m \in shorter : Len(m) = n - 1 },
                                         c \in S }

NoDup(l) == \A a, b \in 1..Len(l) : a # b => l[a] # l[b]

Strategies ==
  { s \in [ buy_conditions  : { l \in ListsOf(BuyConds, MaxConds) : NoDup(l) },
            sell_conditions : { l \in ListsOf(SellConds, MaxConds) : NoDup(l) },
            initial_capital : Capitals ] :
      Len(s.buy_conditions) + Len(s.sell_conditions) <= MaxConds }

\* The close columns of the frames the data provider can yield: the empty
\* frame, or a run of unchanged closes (none, or one that leaves the RSI or
\* the rolling-maximum window two bars short) followed by 1..MaxTail free
\* closes.
Lead(n) == [k \in 1..n |-> 2]

LeadLens == {0, period - 2, rolling_window - 2}

CloseColumns ==
  { <<>> } \cup
  { Lead(n) \o t : n \in LeadLens, t \in ListsOf(Prices, MaxTail) \ { <<>> } }

\* A frame: its Close column and the number of calendar months its index
\* spans (the rows of resample('M')).
NoFrame == [isNone |-> TRUE, Close |-> <<>>, months |-> 0]
FrameOf(c, m) == [isNone |-> FALSE, Close |-> c, months |-> m]
Frame(c) == FrameOf(c, IF Len(c) = 0 THEN 0 ELSE 1)

\* The close columns of the frames FinancialTheoryTester.fetch_data can be
\* given: up to MaxTail unchanged closes; thirty bars, unchanged but for the
\* 20th, the 25th and the 30th (a full z-score window, and the bars that
\* close the 5-bar returns after it); a year of unchanged closes, or a year
\* and a day, and a free last close.
ShortColumns == { Lead(n) : n \in 0..MaxTail }

ReversionColumns ==
  { Lead(19) \o <<a>> \o Lead(4) \o <<b>> \o Lead(4) \o <<c>> : a, b, c \in Prices }

YearColumns ==
  { Lead(n) \o <<l>> : n \in {trading_days - 1, trading_days}, l \in Prices }

TesterFrames ==
  { f \in [isNone : {FALSE}, Close : ShortColumns, months : 0..MaxMonths] :
      /\ Len(f.Close) = 0 => f.months = 0
      /\ Len(f.Close) = 1 => f.months = 1
      /\ Len(f.Close) > 1 => f.months >= 1 }
  \cup [isNone : {FALSE}, Close : ReversionColumns \cup YearColumns,
        months : {1, MaxMonths}]

PEs == {10, 20}

\* A strategy text, lower-cased, as the sequence of its words and numerals:
\* one keyword of each family parse_strategy looks for, and numerals.
Word(w) == [word |-> w, n |-> 0]
Num(k) == [word |-> "num", n |-> k]

PercentNums == {0, 5, 10}
LevelNums == {5, 10}
CapitalNums == {0, 20}

\* The pieces the texts are made of: "drops", "rises", "rsi", "<n> percent",
\* "below <n>", "above <n>", "<n> capital".
Phrases ==
  { << Word("drops") >>, << Word("rises") >>, << Word("rsi") >> }
  \cup { << Num(k), Word("percent") >> : k \in PercentNums }
  \cup { << Word("below"), Num(k) >> : k \in LevelNums }
  \cup { << Word("above"), Num(k) >> : k \in LevelNums }
  \cup { << Num(k), Word("capital") >> : k \in CapitalNums }

\* The frames and the strategies calculate_rsi and the two condition checks
\* are called on alone: an RSI level to buy under and to sell over.
RsiUnits == { "calculate_rsi", "check_buy_conditions", "check_sell_conditions" }
RsiFrames == { Frame(c) : c \in CloseColumns \ { <<>> } }
RsiLevels == {0, 50, 99, 100}
RsiStrategies ==
  { [buy_conditions |-> << [type |-> "rsi_below", value |-> v] >>,
     sell_conditions |-> << [type |-> "rsi_above", value |-> v] >>,
     initial_capital |-> default_capital] : v \in RsiLevels }

\* The arguments of _get_technical_interpretation.
Signals ==
  [golden_cross : BOOLEAN, price_above_mas : BOOLEAN,
   oversold : BOOLEAN, overbought : BOOLEAN]

\* ------------------------------------------------------------- arithmetic
RECURSIVE SumOver(_, _, _)
SumOver(f, a, b) ==
  IF a > b THEN 0
  ELSE IF a = b THEN f[a]
  ELSE LET m == (a + b) \div 2 IN SumOver(f, a, m) + SumOver(f, m + 1, b)

RECURSIVE MaxOver(_, _, _)
MaxOver(f, a, b) ==
  IF a = b THEN f[a]
  ELSE LET m == MaxOver(f, a, b - 1) IN IF f[b] > m THEN f[b] ELSE m

Least(S) == CHOOSE m \in S : \A x \in S : m <= x
Greatest(S) == CHOOSE m \in S : \A x \in S : m >= x

\* A possibly undefined ratio num/den (den > 0 when defined); nan is pandas'
\* NaN, every comparison with which is False.
NaN == [nan |-> TRUE, num |-> 0, den |-> 1]
Ratio(n, d) == [nan |-> FALSE, num |-> n, den |-> d]

RatioGE(r, v) == ~r.nan /\ r.num >= v * r.den
RatioLT(r, v) == ~r.nan /\ r.num < v * r.den
RatioGT(r, v) == ~r.nan /\ r.num > v * r.den

\* f"{x:.1f}" of a non-negative ratio: the number of tenths, rounded.
Fmt1(r) == (20 * r.num + r.den) \div (2 * r.den)

\* ------------------------------------------------------------- indicators
\* Mutation: the maximum of a history shorter than the window is taken over
\* the bars there are (min_periods = 1).
rolling_max_last_short_history(prices, window) ==
  IF Len(prices) = 0 THEN NaN
  ELSE Ratio(MaxOver(prices, IF Len(prices) < window THEN 1
                             ELSE Len(prices) - window + 1, Len(prices)), 1)

\* Series.rolling(window).max().iloc[-1]
rolling_max_last(prices, window) ==
  IF Len(prices) < window THEN NaN
  ELSE Ratio(MaxOver(prices, Len(prices) - window + 1, Len(prices)), 1)

\* calculate_rsi: delta = prices.diff(); the NaN of delta[1] fails both
\* delta > 0 and delta < 0 and is replaced by 0 in gain and in loss.
delta_gain(prices, k) ==
  IF k > 1 /\ prices[k] - prices[k - 1] > 0 THEN prices[k] - prices[k - 1] ELSE 0

delta_loss(prices, k) ==
  IF k > 1 /\ prices[k] - prices[k - 1] < 0 THEN prices[k - 1] - prices[k] ELSE 0

\* Mutation: a window without a loss has no RSI (the division by zero is
\* not carried through).
rsi_of_undefined_without_loss(G, L) ==
  IF L = 0 THEN NaN ELSE Ratio(100 * G, G + L)

rsi_of(G, L) ==
  IF L = 0
    THEN IF G = 0 THEN NaN            \* 0/0: rs is NaN
         ELSE Ratio(100, 1)           \* rs = inf, 100 - 100/inf
    ELSE Ratio(100 * G, G + L)        \* 100 - 100/(1 + G/L)

calculate_rsi(prices) ==
  [k \in 1..Len(prices) |->
     IF k < period THEN NaN
     ELSE rsi_of(SumOver([j \in 1..Len(prices) |-> delta_gain(prices, j)],
                         k - period + 1, k),
                 SumOver([j \in 1..Len(prices) |-> delta_loss(prices, j)],
                         k - period + 1, k))]

\* ----------------------------------------------------- condition evaluator
\* The reason strings, by their fixed text and the two values formatted in.
NoReason == [text |-> "None", a |-> 0, b |-> 0]
Reason(t, x, y) == [text |-> t, a |-> x, b |-> y]

\* Mutation: df['Close'], the column without the slice up to index.
close_until_whole_column(df, index) == df.Close

\* df.loc[:index, 'Close']
close_until(df, index) == SubSeq(df.Close, 1, index)

\* One pass of the loop body of check_buy_conditions for condition c.
buy_condition(c, df, index) ==
  LET current_price == df.Close[index]
      history == close_until(df, index)
  IN  CASE c.type = "dip" ->
             LET recent_high == rolling_max_last(history, rolling_window)
                 drop_percent ==
                   IF recent_high.nan THEN NaN
                   ELSE Ratio((recent_high.num - current_price) * 100, recent_high.num)
             IN  IF RatioGE(drop_percent, c.percent)
                 THEN [fired |-> TRUE,
                       reason |-> Reason("Price dropped", Fmt1(drop_percent), 0)]
                 ELSE [fired |-> FALSE, reason |-> NoReason]
        [] c.type = "price_below" ->
             IF current_price < c.price
             THEN [fired |-> TRUE,
                   reason |-> Reason("Price below", current_price, c.price)]
             ELSE [fired |-> FALSE, reason |-> NoReason]
        [] c.type = "rsi_below" ->
             LET rsi == calculate_rsi(history)
                 current_rsi == rsi[Len(history)]
             IN  IF RatioLT(current_rsi, c.value)
                 THEN [fired |-> TRUE,
                       reason |-> Reason("RSI below", Fmt1(current_rsi), c.value)]
                 ELSE [fired |-> FALSE, reason |-> NoReason]
        [] OTHER -> [fired |-> FALSE, reason |-> NoReason]

\* One pass of the loop body of check_sell_conditions for condition c.
sell_condition(c, df, index, entry) ==
  LET current_price == df.Close[index]
      history == close_until(df, index)
  IN  CASE c.type = "rise" ->
             LET gain_percent == Ratio((current_price - entry) * 100, entry)
             IN  IF RatioGE(gain_percent, c.percent)
                 THEN [fired |-> TRUE,
                       reason |-> Reason("Price rose", Fmt1(gain_percent), 0)]
                 ELSE [fired |-> FALSE, reason |-> NoReason]
        [] c.type = "price_above" ->
             IF current_price > c.price
             THEN [fired |-> TRUE,
                   reason |-> Reason("Price above", current_price, c.price)]
             ELSE [fired |-> FALSE, reason |-> NoReason]
        [] c.type = "rsi_above" ->
             LET rsi == calculate_rsi(history)
                 current_rsi == rsi[Len(history)]
             IN  IF RatioGT(current_rsi, c.value)
                 THEN [fired |-> TRUE,
                       reason |-> Reason("RSI above", Fmt1(current_rsi), c.value)]
                 ELSE [fired |-> FALSE, reason |-> NoReason]
        [] OTHER -> [fired |-> FALSE, reason |-> NoReason]

\* for condition in strategy['buy_conditions']: ... return True, reason
\* at the first one that fires; return False, None after the loop.
RECURSIVE buy_loop(_, _, _, _)
buy_loop(df, index, conds, k) ==
  IF k > Len(conds) THEN [fired |-> FALSE, reason |-> NoReason]
  ELSE LET r == buy_condition(conds[k], df, index)
       IN  IF r.fired THEN r ELSE buy_loop(df, index, conds, k + 1)

check_buy_conditions(df, index, strat) ==
  buy_loop(df, index, strat.buy_conditions, 1)

\* Mutation: the loop does not return at the first sell condition that
\* fires, and reports the last one that does.
RECURSIVE sell_loop_last(_, _, _, _, _)
sell_loop_last(df, index, conds, entry, k) ==
  IF k > Len(conds) THEN [fired |-> FALSE, reason |-> NoReason]
  ELSE LET r == sell_condition(conds[k], df, index, entry)
           later == sell_loop_last(df, index, conds, entry, k + 1)
       IN  IF later.fired THEN later ELSE r

RECURSIVE sell_loop(_, _, _, _, _)
sell_loop(df, index, conds, entry, k) ==
  IF k > Len(conds) THEN [fired |-> FALSE, reason |-> NoReason]
  ELSE LET r == sell_condition(conds[k], df, index, entry)
       IN  IF r.fired THEN r ELSE sell_loop(df, index, conds, entry, k + 1)

check_sell_conditions(df, index, strat, entry) ==
  sell_loop(df, index, strat.sell_conditions, entry, 1)

\* ------------------------------------------------------------------ state
VARIABLES
  prog,             \* the script that runs: "backtester" or "tester"
  pc,               \* where its main is
  calls,            \* the functions called so far, in order
  df,               \* main: the frame get_stock_data returned
  strategy,         \* main: the parsed strategy
  cash, shares, portfolio_value, trades, in_position, entry_price,
  i,                \* backtest_strategy: the number of bars processed
  final_value, total_return,
  data, info,       \* FinancialTheoryTester: self.data, self.info
  tests,            \* run_all_tests: the list it returns
  strategy_text,    \* parse_strategy: its argument, lower-cased, as words
  signals,          \* _get_technical_interpretation: its four arguments
  interpretation,   \* the string each copy of it returns
  rsi_result,       \* calculate_rsi: the Series it returns
  should_buy,       \* check_buy_conditions: the flag it returns
  should_sell       \* check_sell_conditions: the flag it returns

vars == << prog, pc, calls, df, strategy, cash, shares, portfolio_value, trades,
           in_position, entry_price, i, final_value, total_return,
           data, info, tests, strategy_text, signals, interpretation,
           rsi_result, should_buy, should_sell >>

bt_locals == << cash, shares, portfolio_value, trades, in_position, entry_price,
                i, final_value, total_return >>
tester_vars == << data, info, tests >>
unit_vars == << strategy_text, signals, interpretation,
               rsi_result, should_buy, should_sell >>

State(c, n, pv, tr, pos, ep) ==
  [cash |-> c, shares |-> n, portfolio_value |-> pv, trades |-> tr,
   in_position |-> pos, entry_price |-> ep]

locals == State(cash, shares, portfolio_value, trades, in_position, entry_price)

NoStrategy == [buy_conditions |-> <<>>, sell_conditions |-> <<>>, initial_capital |-> 0]
NoInfo == [hasForwardPE |-> FALSE, forwardPE |-> 0]
NoSignals == [golden_cross |-> FALSE, price_above_mas |-> FALSE,
              oversold |-> FALSE, overbought |-> FALSE]
NoInterpretation == [tester |-> "None", visualizer |-> "None"]

Init ==
  /\ prog \in {"backtester", "tester"}
  /\ pc = "main"
  /\ calls = <<>>
  /\ df = NoFrame
  /\ strategy = NoStrategy
  /\ cash = 0 /\ shares = 0 /\ portfolio_value = <<>> /\ trades = <<>>
  /\ in_position = FALSE /\ entry_price = 0 /\ i = 0
  /\ final_value = 0 /\ total_return = NaN
  /\ data = NoFrame
  /\ info = NoInfo
  /\ tests = <<>>
  /\ strategy_text = <<>>
  /\ signals = NoSignals
  /\ interpretation = NoInterpretation
  /\ rsi_result = <<>> /\ should_buy = FALSE /\ should_sell = FALSE

\* ------------------------------------------------- strategy_backtester.py
\* Mutation: only None counts as no data.
no_data_none_only(d) == d.isNone

\* if df is None or df.empty
no_data(d) == d.isNone \/ d.Close = <<>>

\* df = get_stock_data(ticker): a frame (possibly empty) of either provider,
\* or None when both raise.
get_stock_data ==
  /\ prog = "backtester" /\ pc = "main"
  /\ \E r \in {NoFrame} \cup { Frame(c) : c \in CloseColumns } : df' = r
  /\ pc' = "fetched"
  /\ calls' = Append(calls, "get_stock_data")
  /\ UNCHANGED << strategy, bt_locals, tester_vars, prog, unit_vars >>

\* if df is None or df.empty: print(...); sys.exit(1)
main_no_data ==
  /\ prog = "backtester" /\ pc = "fetched"
  /\ no_data(df)
  /\ pc' = "exit_no_data"
  /\ UNCHANGED << calls, df, strategy, bt_locals, tester_vars, prog, unit_vars >>

\* strategy = parse_strategy(strategy_text)
main_parse_strategy ==
  /\ prog = "backtester" /\ pc = "fetched"
  /\ ~no_data(df)
  /\ \E s \in Strategies : strategy' = s
  /\ pc' = "parsed"
  /\ calls' = Append(calls, "parse_strategy")
  /\ UNCHANGED << df, bt_locals, tester_vars, prog, unit_vars >>

\* ---------------------------------------------------------- parse_strategy
\* 'w' in strategy_text, and strategy_text.find('w') (0 when absent).
Has(text, w) == \E k \in 1..Len(text) : text[k].word = w
Positions(text, w) == { k \in 1..Len(text) : text[k].word = w }
Find(text, w) == IF Has(text, w) THEN Least(Positions(text, w)) ELSE 0

\* A numeral at position k.
IsNum(text, k) == k \in 1..Len(text) /\ text[k].word = "num"

None == [none |-> TRUE, value |-> 0]
Some(v) == [none |-> FALSE, value |-> v]

\* extract_percentage: re.search(r'(\d+\.?\d*)\s*[%]|(\d+\.?\d*)\s*percent'),
\* the leftmost numeral followed by "percent".
extract_percentage(text) ==
  LET M == { k \in 1..Len(text) : IsNum(text, k) /\ k < Len(text)
                                   /\ text[k + 1].word = "percent" }
  IN  IF M = {} THEN None ELSE Some(text[Least(M)].n)

\* re.search(r'rsi.*<w>\s*(\d+)'): after the first "rsi", the last <w> that a
\* numeral follows (.* is greedy).
rsi_match(text, w) ==
  LET M == { k \in Positions(text, w) : k > Find(text, "rsi") /\ IsNum(text, k + 1) }
  IN  IF ~Has(text, "rsi") \/ M = {} THEN None ELSE Some(text[Greatest(M) + 1].n)

\* re.search(r'<w>\s*[\$\\\$]?(\d+\.?\d*)'): the first <w> that a numeral
\* follows.
price_match(text, w) ==
  LET M == { k \in Positions(text, w) : IsNum(text, k + 1) }
  IN  IF M = {} THEN None ELSE Some(text[Least(M) + 1].n)

\* Mutation: the capital is the leftmost numeral of the text, whatever
\* follows it.
capital_match_any_numeral(text) ==
  LET M == { k \in 1..Len(text) : IsNum(text, k) }
  IN  IF M = {} THEN None ELSE Some(text[Least(M)].n)

\* re.search(r'\$?(\d+\.?\d*)\s*(?:initial|starting|capital|money|with|invest)')
capital_match(text) ==
  LET M == { k \in 1..Len(text) : IsNum(text, k) /\ k < Len(text)
                                   /\ text[k + 1].word = "capital" }
  IN  IF M = {} THEN None ELSE Some(text[Least(M)].n)

\* if dip_percent: / if rise_percent: (None and 0 are false)
Truthy(m) == ~m.none /\ m.value # 0

\* Parse buy conditions: three ifs, each of which may append.
dip_parsed(text) ==
  IF Has(text, "drops") /\ Truthy(extract_percentage(text))
  THEN << [type |-> "dip", percent |-> extract_percentage(text).value] >>
  ELSE << >>

rsi_below_parsed(text) ==
  IF Has(text, "rsi") /\ Has(text, "below")
     /\ Find(text, "rsi") < Find(text, "below")
     /\ ~rsi_match(text, "below").none
  THEN << [type |-> "rsi_below", value |-> rsi_match(text, "below").value] >>
  ELSE << >>

price_below_parsed(text) ==
  IF Has(text, "below")
     /\ (~Has(text, "rsi") \/ Find(text, "rsi") > Find(text, "below"))
     /\ ~price_match(text, "below").none
  THEN << [type |-> "price_below", price |-> price_match(text, "below").value] >>
  ELSE << >>

\* Parse sell conditions.
rise_parsed(text) ==
  IF Has(text, "rises") /\ Truthy(extract_percentage(text))
  THEN << [type |-> "rise", percent |-> extract_percentage(text).value] >>
  ELSE << >>

rsi_above_parsed(text) ==
  IF Has(text, "rsi") /\ Has(text, "above") /\ ~rsi_match(text, "above").none
  THEN << [type |-> "rsi_above", value |-> rsi_match(text, "above").value] >>
  ELSE << >>

\* 'rsi' not in strategy_text.split('above')[0]: no "rsi" before the first
\* "above".
price_above_parsed(text) ==
  IF Has(text, "above")
     /\ (~Has(text, "rsi") \/ Find(text, "rsi") > Find(text, "above"))
     /\ ~price_match(text, "above").none
  THEN << [type |-> "price_above", price |-> price_match(text, "above").value] >>
  ELSE << >>

\* Mutation: the price family is tried before the rsi family and the
\* percentage family last.
parse_strategy_price_first(text) ==
  [buy_conditions |-> price_below_parsed(text) \o rsi_below_parsed(text) \o dip_parsed(text),
   sell_conditions |-> price_above_parsed(text) \o rsi_above_parsed(text) \o rise_parsed(text),
   initial_capital |-> IF capital_match(text).none THEN default_capital
                       ELSE capital_match(text).value]

parse_strategy(text) ==
  [buy_conditions |-> dip_parsed(text) \o rsi_below_parsed(text) \o price_below_parsed(text),
   sell_conditions |-> rise_parsed(text) \o rsi_above_parsed(text) \o price_above_parsed(text),
   initial_capital |-> IF capital_match(text).none THEN default_capital
                       ELSE capital_match(text).value]

\* Mutation: the simulation starts with no cash.
initial_state_no_cash(strat) == State(0, 0, <<>>, <<>>, FALSE, 0)

\* backtest_strategy: the locals before the loop.
initial_state(strat) == State(strat.initial_capital, 0, <<>>, <<>>, FALSE, 0)

Trade(date, type, price, n, reason) ==
  [date |-> date, type |-> type, price |-> price, shares |-> n, reason |-> reason]

\* Mutation: the cost of the shares is not taken from the cash.
buy_keeps_cash(s, date, current_price, reason) ==
  LET bought == s.cash \div current_price
  IN  [s EXCEPT !.shares = bought,
                !.entry_price = current_price,
                !.in_position = TRUE,
                !.trades = Append(@, Trade(date, "BUY", current_price, bought, reason))]

\* Mutation: a purchase of no share is not made.
buy_if_affordable(s, date, current_price, reason) ==
  LET bought == s.cash \div current_price
  IN  IF bought = 0 THEN s
      ELSE [s EXCEPT !.shares = bought,
                     !.cash = s.cash - (bought * current_price),
                     !.entry_price = current_price,
                     !.in_position = TRUE,
                     !.trades = Append(@, Trade(date, "BUY", current_price, bought, reason))]

\* if should_buy: ...
buy(s, date, current_price, reason) ==
  LET bought == s.cash \div current_price      \* int(cash / current_price)
  IN  [s EXCEPT !.shares = bought,
                !.cash = s.cash - (bought * current_price),
                !.entry_price = current_price,
                !.in_position = TRUE,
                !.trades = Append(@, Trade(date, "BUY", current_price, bought, reason))]

\* Mutation: shares is reset before the trade is recorded.
sell_records_zero(s, date, current_price, reason) ==
  [s EXCEPT !.cash = s.cash + (s.shares * current_price),
            !.trades = Append(@, Trade(date, "SELL", current_price, 0, reason)),
            !.shares = 0,
            !.in_position = FALSE]

\* Mutation: in_position is not reset by a sale.
sell_stays_long(s, date, current_price, reason) ==
  [s EXCEPT !.cash = s.cash + (s.shares * current_price),
            !.trades = Append(@, Trade(date, "SELL", current_price, s.shares, reason)),
            !.shares = 0]

\* if should_sell: ...
sell(s, date, current_price, reason) ==
  [s EXCEPT !.cash = s.cash + (s.shares * current_price),
            !.trades = Append(@, Trade(date, "SELL", current_price, s.shares, reason)),
            !.shares = 0,
            !.in_position = FALSE]

\* Mutation: "if in_position" in place of "else", so that a position bought
\* at a bar is offered for sale at the same bar.
sell_if_long(d, strat, t, date, current_price) ==
  LET r == check_sell_conditions(d, date, strat, t.entry_price)
  IN  IF t.in_position /\ r.fired THEN sell(t, date, current_price, r.reason) ELSE t

buy_if_flat(d, strat, s, date, current_price) ==
  LET r == check_buy_conditions(d, date, strat)
  IN  IF ~s.in_position /\ r.fired THEN buy(s, date, current_price, r.reason) ELSE s

transition_sells_same_bar(d, strat, s, date, current_price) ==
  sell_if_long(d, strat, buy_if_flat(d, strat, s, date, current_price),
               date, current_price)

\* Mutation: a single round trip, no buy once a trade was made.
transition_single_trip(d, strat, s, date, current_price) ==
  IF ~s.in_position
  THEN LET r == check_buy_conditions(d, date, strat)
       IN  IF r.fired /\ s.trades = <<>>
           THEN buy(s, date, current_price, r.reason) ELSE s
  ELSE LET r == check_sell_conditions(d, date, strat, s.entry_price)
       IN  IF r.fired THEN sell(s, date, current_price, r.reason) ELSE s

\* Mutation: the value of a bar is the cash alone.
append_value_cash_only(t, current_price) ==
  [t EXCEPT !.portfolio_value = Append(@, t.cash)]

\* portfolio_value.append(cash + (shares * current_price))
append_value(t, current_price) ==
  [t EXCEPT !.portfolio_value = Append(@, t.cash + (t.shares * current_price))]

\* The if/else of the loop body, from locals s, for the bar at position date.
transition(d, strat, s, date, current_price) ==
  IF ~s.in_position
  THEN LET r == check_buy_conditions(d, date, strat)
       IN  IF r.fired THEN buy(s, date, current_price, r.reason) ELSE s
  ELSE LET r == check_sell_conditions(d, date, strat, s.entry_price)
       IN  IF r.fired THEN sell(s, date, current_price, r.reason) ELSE s

\* One iteration of the loop over df.iterrows(), from locals s, for the bar
\* at position date.
bar(d, strat, s, date) ==
  append_value(transition(d, strat, s, date, d.Close[date]), d.Close[date])

\* The locals of backtest_strategy(d, strat) after its first k bars.
RECURSIVE simulate(_, _, _)
simulate(d, strat, k) ==
  IF k = 0 THEN initial_state(strat)
  ELSE bar(d, strat, simulate(d, strat, k - 1), k)

SetLocals(t) ==
  /\ cash' = t.cash
  /\ shares' = t.shares
  /\ portfolio_value' = t.portfolio_value
  /\ trades' = t.trades
  /\ in_position' = t.in_position
  /\ entry_price' = t.entry_price

\* backtest_strategy(df, strategy), up to the loop.
backtest_begin ==
  /\ prog = "backtester" /\ pc = "parsed"
  /\ SetLocals(initial_state(strategy))
  /\ i' = 0
  /\ pc' = "loop"
  /\ calls' = Append(calls, "backtest_strategy")
  /\ UNCHANGED << df, strategy, final_value, total_return, tester_vars, prog, unit_vars >>

\* for i, (date, row) in enumerate(df.iterrows()): one bar.
backtest_bar ==
  /\ prog = "backtester" /\ pc = "loop"
  /\ i < Len(df.Close)
  /\ SetLocals(bar(df, strategy, locals, i + 1))
  /\ i' = i + 1
  /\ UNCHANGED << pc, calls, df, strategy, final_value, total_return, tester_vars, prog, unit_vars >>

\* Mutation: a position still open after the last bar is closed at its close.
backtest_return_force_close ==
  /\ prog = "backtester" /\ pc = "loop"
  /\ i = Len(df.Close)
  /\ LET last == df.Close[Len(df.Close)]
         t == IF in_position THEN sell(locals, i, last, NoReason) ELSE locals
     IN  /\ SetLocals(t)
         /\ final_value' = t.cash
         /\ total_return' =
              IF strategy.initial_capital = 0 THEN NaN
              ELSE Ratio((t.cash - strategy.initial_capital) * 100, strategy.initial_capital)
  /\ pc' = "returned"
  /\ UNCHANGED << calls, df, strategy, i, tester_vars, prog, unit_vars >>

\* After the loop: final_value, total_return, return.
backtest_return ==
  /\ prog = "backtester" /\ pc = "loop"
  /\ i = Len(df.Close)
  /\ final_value' = portfolio_value[Len(portfolio_value)]
  /\ total_return' =
       IF strategy.initial_capital = 0
       THEN NaN        \* numpy float division 0/0, no exception
       ELSE Ratio((portfolio_value[Len(portfolio_value)] - strategy.initial_capital) * 100,
                  strategy.initial_capital)
  /\ pc' = "returned"
  /\ UNCHANGED << calls, df, strategy, cash, shares, portfolio_value, trades,
                  in_position, entry_price, i, tester_vars, prog, unit_vars >>

\* --------------------------------------------- financial_theory_tester.py
\* What a provider call does: raise, or return a frame.
Raises == [raises |-> TRUE, frame |-> NoFrame]
Returns(f) == [raises |-> FALSE, frame |-> f]
ProviderOutcomes == {Raises} \cup { Returns(f) : f \in TesterFrames }

InfoOutcomes == {NoInfo} \cup { [hasForwardPE |-> TRUE, forwardPE |-> v] : v \in PEs }

\* fetch_data with pandas-datareader available or not (pdr), yfinance
\* available or not (yfa), and the outcomes of web.DataReader (stooq), of
\* stock.history (hist) and of stock.info (inf, {} when it raises):
\* the value of self.data, of self.info and the result.
fetch_data_of(pdr, stooq, yfa, hist, inf) ==
  LET d1 == IF pdr /\ ~stooq.raises THEN stooq.frame ELSE NoFrame
  IN  IF pdr /\ ~stooq.raises /\ stooq.frame.Close # <<>>
      THEN [data |-> d1, info |-> NoInfo, ok |-> TRUE]
      ELSE IF yfa /\ ~hist.raises
           THEN IF hist.frame.Close # <<>>
                THEN [data |-> hist.frame, info |-> inf, ok |-> TRUE]
                ELSE [data |-> hist.frame, info |-> NoInfo, ok |-> FALSE]
           ELSE [data |-> d1, info |-> NoInfo, ok |-> FALSE]

\* run_all_tests: if not self.fetch_data()
fetch_data ==
  /\ prog = "tester" /\ pc = "main"
  /\ \E pdr, yfa \in BOOLEAN, stooq, hist \in ProviderOutcomes, inf \in InfoOutcomes :
       LET r == fetch_data_of(pdr, stooq, yfa, hist, inf)
       IN  /\ data' = r.data
           /\ info' = r.info
           /\ pc' = IF r.ok THEN "fetch_true" ELSE "fetch_false"
  /\ calls' = Append(calls, "fetch_data")
  /\ UNCHANGED << df, strategy, bt_locals, tests, prog, unit_vars >>

\* A dictionary with the "error" key.
Error(message) == [error |-> TRUE, message |-> message]

\* The sum of the ratios r[k], k in the set K, and their mean as
\* Series.mean() takes it: over the k that are not NaN, NaN when there is none.
RECURSIVE SumRatios(_, _)
SumRatios(r, K) ==
  IF K = {} THEN Ratio(0, 1)
  ELSE LET k == CHOOSE x \in K : TRUE
           rest == SumRatios(r, K \ {k})
       IN  Ratio(r[k].num * rest.den + rest.num * r[k].den, r[k].den * rest.den)

MeanRatios(r, K) ==
  LET D == { k \in K : ~r[k].nan }
      S == SumRatios(r, D)
  IN  IF D = {} THEN NaN ELSE Ratio(S.num, S.den * Cardinality(D))

\* test_efficient_market_hypothesis; the autocorrelation and what is derived
\* from it are left out of the verdict.
test_efficient_market_hypothesis(d, inf) ==
  IF d.isNone THEN Error("No data available")
  ELSE [error |-> FALSE, theory |-> "Efficient Market Hypothesis"]

\* test_momentum_theory: monthly_returns = resample('M').last().pct_change()
\* .dropna(), one fewer than the months; the correlation and what is derived
\* from it are left out of the verdict.
test_momentum_theory(d, inf) ==
  IF d.isNone THEN Error("No data available")
  ELSE IF d.months - 1 < 12 THEN Error("Insufficient data for momentum test")
  ELSE [error |-> FALSE, theory |-> "Momentum Theory"]

\* z_scores > 2 at bar k, with S and Q the sums of the closes and of their
\* squares over the window: (p - S/window) / sqrt((Q - S*S/window) /
\* (window - 1)) > 2; NaN, hence False, before the window is full and when
\* the standard deviation is 0.
window_sum(prices, k, window) == SumOver(prices, k - window + 1, k)
window_squares(prices, k, window) ==
  SumOver([j \in 1..Len(prices) |-> prices[j] * prices[j]], k - window + 1, k)

z_beyond(prices, k, window) ==
  LET dev == window * prices[k] - window_sum(prices, k, window)
      var == window * window_squares(prices, k, window)
               - window_sum(prices, k, window) * window_sum(prices, k, window)
  IN  (window - 1) * dev * dev > 4 * window * var

extreme_high(prices, k) ==
  /\ k >= 20
  /\ 20 * prices[k] - window_sum(prices, k, 20) > 0
  /\ z_beyond(prices, k, 20)

extreme_low(prices, k) ==
  /\ k >= 20
  /\ 20 * prices[k] - window_sum(prices, k, 20) < 0
  /\ z_beyond(prices, k, 20)

\* prices.pct_change(5).shift(-5)
future_returns(prices) ==
  [k \in 1..Len(prices) |->
     IF k + 5 > Len(prices) THEN NaN
     ELSE Ratio(prices[k + 5] - prices[k], prices[k])]

\* round(x, 4): the number of ten-thousandths, rounded; NaN stays NaN.
round4(r) ==
  IF r.nan THEN NaN
  ELSE IF r.num >= 0 THEN Ratio((20000 * r.num + r.den) \div (2 * r.den), 10000)
  ELSE Ratio(0 - ((20000 * (0 - r.num) + r.den) \div (2 * r.den)), 10000)

\* future_returns[extreme].mean() if extreme.any() else 0
reversion(prices, bucket) ==
  IF bucket # {} THEN MeanRatios(future_returns(prices), bucket) ELSE Ratio(0, 1)

mean_reversion_verdict(reversion_high, reversion_low, shows_reversion) ==
  [error |-> FALSE, theory |-> "Mean Reversion",
   reversion_after_high |-> round4(reversion_high),
   reversion_after_low |-> round4(reversion_low),
   shows_reversion |-> shows_reversion,
   interpretation |-> IF shows_reversion THEN "Stock shows mean reversion"
                      ELSE "No clear mean reversion",
   makes_sense |-> shows_reversion]

high_bucket(prices) == { k \in 1..Len(prices) : extreme_high(prices, k) }
low_bucket(prices) == { k \in 1..Len(prices) : extreme_low(prices, k) }

\* Mutation: "or" in place of "and" in shows_reversion.
test_mean_reversion_either(d, inf) ==
  IF d.isNone THEN Error("No data available")
  ELSE LET reversion_high == reversion(d.Close, high_bucket(d.Close))
           reversion_low == reversion(d.Close, low_bucket(d.Close))
       IN  mean_reversion_verdict(reversion_high, reversion_low,
             RatioLT(reversion_high, 0) \/ RatioGT(reversion_low, 0))

test_mean_reversion(d, inf) ==
  IF d.isNone THEN Error("No data available")
  ELSE LET reversion_high == reversion(d.Close, high_bucket(d.Close))
           reversion_low == reversion(d.Close, low_bucket(d.Close))
       IN  mean_reversion_verdict(reversion_high, reversion_low,
             RatioLT(reversion_high, 0) /\ RatioGT(reversion_low, 0))

value_verdict(pe_ratio, is_value_stock, value_works) ==
  [error |-> FALSE, theory |-> "Value Investing",
   pe_ratio |-> pe_ratio,
   is_value_stock |-> is_value_stock,
   interpretation |-> IF is_value_stock THEN "Stock appears undervalued"
                      ELSE "Stock appears overvalued",
   makes_sense |-> value_works]

\* annual_return > 0.10, annual_return = Close.iloc[-1] / Close.iloc[0] - 1
annual_return_over_10(prices) == 10 * prices[Len(prices)] > 11 * prices[1]

\* Mutation: the annual return is asked for from a full year of bars on.
test_value_investing_from_year(d, inf) ==
  IF ~inf.hasForwardPE THEN Error("P/E ratio not available")
  ELSE LET is_value_stock == inf.forwardPE < 15
       IN  value_verdict(inf.forwardPE, is_value_stock,
             IF ~d.isNone /\ Len(d.Close) >= trading_days
             THEN is_value_stock /\ annual_return_over_10(d.Close)
             ELSE is_value_stock)

test_value_investing(d, inf) ==
  IF ~inf.hasForwardPE THEN Error("P/E ratio not available")
  ELSE LET is_value_stock == inf.forwardPE < 15
       IN  value_verdict(inf.forwardPE, is_value_stock,
             IF ~d.isNone /\ Len(d.Close) > trading_days
             THEN is_value_stock /\ annual_return_over_10(d.Close)
             ELSE is_value_stock)

\* prices.rolling(window).mean().iloc[-1]
sma_last(prices, window) ==
  IF Len(prices) < window THEN NaN
  ELSE Ratio(SumOver(prices, Len(prices) - window + 1, Len(prices)), window)

\* The RSI of test_technical_analysis at the last bar (the expressions of
\* calculate_rsi, window 14).
rsi_last(prices) ==
  IF Len(prices) < 14 THEN NaN
  ELSE rsi_of(SumOver([j \in 1..Len(prices) |-> delta_gain(prices, j)],
                      Len(prices) - 13, Len(prices)),
              SumOver([j \in 1..Len(prices) |-> delta_loss(prices, j)],
                      Len(prices) - 13, Len(prices)))

\* a > b for two ratios; False when either is NaN.
RatioAbove(a, b) == ~a.nan /\ ~b.nan /\ a.num * b.den > b.num * a.den

\* Mutation: the trend is read before the RSI.
get_technical_interpretation_trend_first(golden_cross, price_above_mas, oversold, overbought) ==
  IF golden_cross /\ price_above_mas THEN "Bullish trend - golden cross"
  ELSE IF ~golden_cross /\ ~price_above_mas THEN "Bearish trend - below MAs"
  ELSE IF oversold THEN "Oversold - potential buy signal"
  ELSE IF overbought THEN "Overbought - potential sell signal"
  ELSE "Neutral technical position"

\* FinancialTheoryTester._get_technical_interpretation
get_technical_interpretation(golden_cross, price_above_mas, oversold, overbought) ==
  IF oversold THEN "Oversold - potential buy signal"
  ELSE IF overbought THEN "Overbought - potential sell signal"
  ELSE IF golden_cross /\ price_above_mas THEN "Bullish trend - golden cross"
  ELSE IF ~golden_cross /\ ~price_above_mas THEN "Bearish trend - below MAs"
  ELSE "Neutral technical position"

\* FinancialTheoryVisualizer._get_technical_interpretation
visualizer_get_technical_interpretation(golden_cross, price_above_mas, oversold, overbought) ==
  IF oversold THEN "Oversold - potential buy signal"
  ELSE IF overbought THEN "Overbought - potential sell signal"
  ELSE IF golden_cross /\ price_above_mas THEN "Bullish trend - golden cross"
  ELSE IF ~golden_cross /\ ~price_above_mas THEN "Bearish trend - below MAs"
  ELSE "Neutral technical position"

\* test_technical_analysis, on the non-empty frame fetch_data leaves.
test_technical_analysis(d, inf) ==
  IF d.isNone THEN Error("No data available")
  ELSE LET prices == d.Close
           sma_50 == sma_last(prices, 50)
           sma_200 == sma_last(prices, 200)
           current_price == Ratio(prices[Len(prices)], 1)
           golden_cross == RatioAbove(sma_50, sma_200)
           price_above_mas == RatioAbove(current_price, sma_50)
                                /\ RatioAbove(current_price, sma_200)
           current_rsi == rsi_last(prices)
           oversold == RatioLT(current_rsi, 30)
           overbought == RatioGT(current_rsi, 70)
       IN  [error |-> FALSE, theory |-> "Technical Analysis",
            current_price |-> prices[Len(prices)],
            sma_50 |-> sma_50,
            sma_200 |-> sma_200,
            golden_cross |-> golden_cross,
            price_above_mas |-> price_above_mas,
            rsi |-> current_rsi,
            oversold |-> oversold,
            overbought |-> overbought,
            interpretation |-> get_technical_interpretation(golden_cross,
                                 price_above_mas, oversold, overbought),
            makes_sense |-> price_above_mas /\ ~overbought]

\* Mutation: the first test that returns an error ends the list.
RECURSIVE WithoutErrors_until_first(_)
WithoutErrors_until_first(ts) ==
  IF ts = <<>> THEN <<>>
  ELSE IF Head(ts).error THEN <<>>
       ELSE <<Head(ts)>> \o WithoutErrors_until_first(Tail(ts))

\* [t for t in tests if "error" not in t]
RECURSIVE WithoutErrors(_)
WithoutErrors(ts) ==
  IF ts = <<>> THEN <<>>
  ELSE IF Head(ts).error THEN WithoutErrors(Tail(ts))
       ELSE <<Head(ts)>> \o WithoutErrors(Tail(ts))

\* run_all_tests: return []
run_all_tests_no_data ==
  /\ prog = "tester" /\ pc = "fetch_false"
  /\ tests' = <<>>
  /\ pc' = "returned"
  /\ UNCHANGED << calls, df, strategy, bt_locals, data, info, prog, unit_vars >>

\* run_all_tests: the five tests, and the filter on "error".
run_all_tests_run ==
  /\ prog = "tester" /\ pc = "fetch_true"
  /\ tests' = WithoutErrors(<< test_efficient_market_hypothesis(data, info),
                               test_momentum_theory(data, info),
                               test_mean_reversion(data, info),
                               test_value_investing(data, info),
                               test_technical_analysis(data, info) >>)
  /\ calls' = calls \o << "test_efficient_market_hypothesis", "test_momentum_theory",
                          "test_mean_reversion", "test_value_investing",
                          "test_technical_analysis" >>
  /\ pc' = "returned"
  /\ UNCHANGED << df, strategy, bt_locals, data, info, prog, unit_vars >>

Next ==
  \/ get_stock_data
  \/ main_no_data
  \/ main_parse_strategy
  \/ backtest_begin
  \/ backtest_bar
  \/ backtest_return
  \/ fetch_data
  \/ run_all_tests_no_data
  \/ run_all_tests_run

Spec == Init /\ [][Next]_vars

\* ------------------------------------------- the functions, called alone
\* parse_strategy(strategy_text) on a text of at most MaxWords words, and the
\* two copies of _get_technical_interpretation on any four booleans.
UnitInit ==
  /\ prog \in {"parse_strategy", "get_technical_interpretation", "calculate_rsi",
               "check_buy_conditions", "check_sell_conditions"}
  /\ pc = "main"
  /\ calls = <<>>
  /\ df \in (IF prog \in RsiUnits THEN RsiFrames ELSE {NoFrame})
  /\ strategy \in (IF prog \in RsiUnits \ {"calculate_rsi"} THEN RsiStrategies
                   ELSE {NoStrategy})
  /\ cash = 0 /\ shares = 0 /\ portfolio_value = <<>> /\ trades = <<>>
  /\ in_position = FALSE /\ entry_price = 0 /\ i = 0
  /\ final_value = 0 /\ total_return = NaN
  /\ data = NoFrame
  /\ info = NoInfo
  /\ tests = <<>>
  /\ strategy_text = <<>>
  /\ signals \in (IF prog = "get_technical_interpretation" THEN Signals ELSE {NoSignals})
  /\ interpretation = NoInterpretation
  /\ rsi_result = <<>> /\ should_buy = FALSE /\ should_sell = FALSE

\* strategy_text = ' '.join(sys.argv[2:]): one more piece of the text.
type_phrase ==
  /\ prog = "parse_strategy" /\ pc = "main"
  /\ \E ph \in Phrases :
       /\ Len(strategy_text) + Len(ph) <= MaxWords
       /\ strategy_text' = strategy_text \o ph
  /\ UNCHANGED << prog, pc, calls, df, strategy, bt_locals, tester_vars,
                  signals, interpretation, rsi_result, should_buy, should_sell >>

call_parse_strategy ==
  /\ prog = "parse_strategy" /\ pc = "main"
  /\ strategy' = parse_strategy(strategy_text)
  /\ pc' = "parsed"
  /\ calls' = Append(calls, "parse_strategy")
  /\ UNCHANGED << prog, df, bt_locals, tester_vars, unit_vars >>

call_get_technical_interpretation ==
  /\ prog = "get_technical_interpretation" /\ pc = "main"
  /\ interpretation' =
       [tester |-> get_technical_interpretation(signals.golden_cross,
                     signals.price_above_mas, signals.oversold, signals.overbought),
        visualizer |-> visualizer_get_technical_interpretation(signals.golden_cross,
                     signals.price_above_mas, signals.oversold, signals.overbought)]
  /\ pc' = "returned"
  /\ calls' = Append(calls, "_get_technical_interpretation")
  /\ UNCHANGED << prog, df, strategy, bt_locals, tester_vars, strategy_text, signals,
                  rsi_result, should_buy, should_sell >>

\* rsi = calculate_rsi(df['Close'])
call_calculate_rsi ==
  /\ prog = "calculate_rsi" /\ pc = "main"
  /\ rsi_result' = calculate_rsi(df.Close)
  /\ pc' = "returned"
  /\ calls' = Append(calls, "calculate_rsi")
  /\ UNCHANGED << prog, df, strategy, bt_locals, tester_vars, strategy_text, signals,
                  interpretation, should_buy, should_sell >>

\* should_buy, reason = check_buy_conditions(df, date, strategy), at any bar.
call_check_buy_conditions ==
  /\ prog = "check_buy_conditions" /\ pc = "main"
  /\ \E date \in 1..Len(df.Close) :
       /\ should_buy' = check_buy_conditions(df, date, strategy).fired
       /\ i' = date
  /\ pc' = "returned"
  /\ calls' = Append(calls, "check_buy_conditions")
  /\ UNCHANGED << prog, df, strategy, cash, shares, portfolio_value, trades,
                  in_position, entry_price, final_value, total_return, tester_vars,
                  strategy_text, signals, interpretation, rsi_result, should_sell >>

\* should_sell, reason = check_sell_conditions(df, date, strategy, entry_price),
\* at any bar, for a position entered at the first.
call_check_sell_conditions ==
  /\ prog = "check_sell_conditions" /\ pc = "main"
  /\ \E date \in 1..Len(df.Close) :
       /\ should_sell' = check_sell_conditions(df, date, strategy, df.Close[1]).fired
       /\ i' = date
  /\ pc' = "returned"
  /\ calls' = Append(calls, "check_sell_conditions")
  /\ UNCHANGED << prog, df, strategy, cash, shares, portfolio_value, trades,
                  in_position, entry_price, final_value, total_return, tester_vars,
                  strategy_text, signals, interpretation, rsi_result, should_buy >>

UnitNext ==
  \/ type_phrase
  \/ call_parse_strategy
  \/ call_get_technical_interpretation
  \/ call_calculate_rsi
  \/ call_check_buy_conditions
  \/ call_check_sell_conditions

UnitSpec == UnitInit /\ [][UnitNext]_vars

\* ------------------------------------------------- the purchase in floats
\* cash and current_price are floats: each of /, * and - returns the float
\* nearest to the exact result, ties to the even significand.
RECURSIVE Pow2(_)
Pow2(n) == IF n = 0 THEN 1 ELSE 2 * Pow2(n - 1)

\* a / b rounded to the nearest integer, ties to even (a >= 0, b > 0).
RoundDiv(a, b) ==
  LET q == a \div b
      r == a % b
  IN  IF 2 * r < b THEN q
      ELSE IF 2 * r > b THEN q + 1
      ELSE IF q % 2 = 0 THEN q ELSE q + 1

\* The float nearest to a / b (a >= 0, b > 0): a significand of Significand
\* bits, scaled by a power of two.
RECURSIVE fl(_, _)
fl(a, b) ==
  IF a = 0 THEN Ratio(0, 1)
  ELSE IF a >= Pow2(Significand) * b
    THEN LET h == fl(a, 2 * b) IN Ratio(2 * h.num, h.den)
  ELSE IF a < Pow2(Significand - 1) * b
    THEN LET d == fl(2 * a, b) IN Ratio(d.num, 2 * d.den)
  ELSE Ratio(RoundDiv(a, b), 1)

\* The float nearest to the integer n, of either sign; it is an integer.
fl_int(n) ==
  IF n >= 0 THEN fl(n, 1).num \div fl(n, 1).den
  ELSE 0 - (fl(0 - n, 1).num \div fl(0 - n, 1).den)

\* The positive floats up to MaxValue that are integers.
FloatValues == { n \in 1..MaxValue : fl_int(n) = n }

\* if should_buy: ... with the arithmetic of floats.
buy_in_floats(s, date, current_price, reason) ==
  LET quotient == fl(s.cash, current_price)          \* cash / current_price
      bought == quotient.num \div quotient.den       \* int(...)
      cost == fl_int(bought * current_price)         \* shares * current_price
  IN  [s EXCEPT !.shares = bought,
                !.cash = fl_int(s.cash - cost),
                !.entry_price = current_price,
                !.in_position = TRUE,
                !.trades = Append(@, Trade(date, "BUY", current_price, bought, reason))]

\* backtest_strategy on a one-bar frame whose buy condition fires, from an
\* initial capital that is a float.
FloatInit ==
  /\ prog = "backtest_strategy"
  /\ pc = "loop"
  /\ calls = << "backtest_strategy" >>
  /\ df = NoFrame
  /\ strategy \in { [NoStrategy EXCEPT !.initial_capital = c] : c \in FloatValues }
  /\ cash = strategy.initial_capital
  /\ shares = 0 /\ portfolio_value = <<>> /\ trades = <<>>
  /\ in_position = FALSE /\ entry_price = 0 /\ i = 0
  /\ final_value = 0 /\ total_return = NaN
  /\ data = NoFrame
  /\ info = NoInfo
  /\ tests = <<>>
  /\ strategy_text = <<>>
  /\ signals = NoSignals
  /\ interpretation = NoInterpretation
  /\ rsi_result = <<>> /\ should_buy = FALSE /\ should_sell = FALSE

\* The bar at which the strategy buys: current_price = row['Close'].
float_bar ==
  /\ prog = "backtest_strategy" /\ pc = "loop"
  /\ ~in_position
  /\ \E current_price \in FloatValues :
       SetLocals(buy_in_floats(locals, 1, current_price, NoReason))
  /\ i' = 1
  /\ UNCHANGED << prog, pc, calls, df, strategy, final_value, total_return,
                  tester_vars, unit_vars >>

FloatNext == float_bar

FloatSpec == FloatInit /\ [][FloatNext]_vars

\* ----------------------------------------------------------------- claims
InLoop == prog = "backtester" /\ pc = "loop"
InBacktest == prog = "backtester" /\ pc \in {"loop", "returned"}
AtBar == InLoop /\ i < Len(df.Close)
LastClose == df.Close[Len(df.Close)]
Last(q) == q[Len(q)]

\* C1: at a bar where the simulator is FLAT and a buy condition fires, after
\* the bar shares = floor(cash_before / close), cash = cash_before -
\* shares * close, entry_price = close, in_position is true, and exactly one
\* BUY trade {date of the bar, close, shares, reason} has been appended.
C1_BuyTransition ==
  [][ (AtBar /\ ~in_position /\ check_buy_conditions(df, i + 1, strategy).fired)
      => LET close == df.Close[i + 1]
             n == cash \div close
         IN  /\ n * close <= cash /\ cash < (n + 1) * close
             /\ shares' = n
             /\ cash' = cash - n * close
             /\ entry_price' = close
             /\ in_position' = TRUE
             /\ trades' = Append(trades,
                  Trade(i + 1, "BUY", close, n,
                        check_buy_conditions(df, i + 1, strategy).reason)) ]_vars

\* C1 happens: a BUY of at least one share that left cash over.
C1_Witness ==
  /\ InLoop /\ in_position /\ trades # <<>>
  /\ Last(trades).type = "BUY" /\ Last(trades).date = i
  /\ shares > 0 /\ cash > 0

\* C2: at a bar where the simulator is LONG and a sell condition fires
\* against the stored entry_price, after the bar cash = cash_before +
\* shares_before * close, shares = 0, in_position is false and exactly one
\* SELL trade with the shares just liquidated and price = close has been
\* appended; if none fires, the bar's portfolio value is cash + shares *
\* close and the state is unchanged.
C2_SellTransition ==
  [][ (AtBar /\ in_position)
      => LET close == df.Close[i + 1]
             r == check_sell_conditions(df, i + 1, strategy, entry_price)
         IN  IF r.fired
             THEN /\ cash' = cash + shares * close
                  /\ shares' = 0
                  /\ in_position' = FALSE
                  /\ trades' = Append(trades, Trade(i + 1, "SELL", close, shares, r.reason))
             ELSE /\ portfolio_value' = Append(portfolio_value, cash + shares * close)
                  /\ UNCHANGED << cash, shares, in_position, entry_price, trades >> ]_vars

\* C2 happens: a SELL of at least one share, after a bar held while LONG.
C2_Witness ==
  /\ InLoop /\ ~in_position /\ shares = 0 /\ Len(trades) >= 2
  /\ Last(trades).type = "SELL" /\ Last(trades).date = i
  /\ Last(trades).shares > 0
  /\ Last(trades).date > trades[Len(trades) - 1].date + 1

\* C3: at most one trade is appended per bar, and a BUY and a SELL never
\* carry the same date: the dates of the trade log increase strictly and
\* none is later than the last bar processed.
C3_OneTransitionPerBar ==
  InBacktest =>
    /\ Len(trades) <= i
    /\ \A k \in 1..Len(trades) : trades[k].date \in 1..i
    /\ \A k \in 1..(Len(trades) - 1) : trades[k].date < trades[k + 1].date

\* C3 happens: a BUY at a bar where a sell condition held as well, and the
\* SELL at the next bar.
C3_Witness ==
  /\ InLoop /\ Len(trades) >= 2
  /\ LET b == trades[Len(trades) - 1]
         x == Last(trades)
     IN  /\ b.type = "BUY" /\ x.type = "SELL"
         /\ x.date = b.date + 1
         /\ check_sell_conditions(df, b.date, strategy, b.price).fired

Prefix(d, k) == [d EXCEPT !.Close = SubSeq(d.Close, 1, k)]

\* C4: the simulator state after bar k (cash, shares, in_position,
\* entry_price, the trade log and the portfolio values up to k) is the state
\* the simulation reaches on the prefix 0..k of the series alone.
C4_NoLookahead ==
  InBacktest => locals = simulate(Prefix(df, i), strategy, i)

\* C4 happens: a trade was made, and bars remain whose close differs from
\* the last one processed, in a series long enough for the rolling maximum.
C4_Witness ==
  /\ InLoop /\ i >= 1 /\ i < Len(df.Close) /\ trades # <<>>
  /\ Len(df.Close) >= rolling_window
  /\ df.Close[i + 1] # df.Close[i]
  /\ \E k \in 1..Len(strategy.buy_conditions) : strategy.buy_conditions[k].type = "dip"

\* C5: when the series ends while the simulator is LONG, returning appends
\* no trade and leaves the position open, and the final value is cash +
\* shares * last_close, the last element of the portfolio-value sequence.
C5_MarkedToMarket ==
  [][ (InLoop /\ i = Len(df.Close) /\ in_position)
      => /\ pc' = "returned"
         /\ UNCHANGED << trades, in_position, shares, cash, portfolio_value >>
         /\ Last(trades).type = "BUY"
         /\ final_value' = cash + shares * LastClose
         /\ final_value' = Last(portfolio_value) ]_vars

\* C5 happens: the run returned with shares still held.
C5_Witness ==
  /\ prog = "backtester" /\ pc = "returned" /\ in_position /\ shares > 0
  /\ final_value = cash + shares * LastClose

\* C6: with an empty buy-condition list the run on a non-empty series goes
\* on to its return, never leaves FLAT, logs no trade, records
\* initial_capital at every bar and returns a total return of 0.
C6_EmptyBuyList ==
  (InBacktest /\ strategy.buy_conditions = <<>>)
    => /\ ~in_position /\ shares = 0 /\ trades = <<>>
       /\ cash = strategy.initial_capital
       /\ Len(portfolio_value) = i
       /\ \A k \in 1..Len(portfolio_value) : portfolio_value[k] = strategy.initial_capital
       /\ InLoop => ENABLED (backtest_bar \/ backtest_return)
       /\ pc = "returned"
            => /\ final_value = strategy.initial_capital
               /\ ~total_return.nan /\ total_return.num = 0

\* The buy conditions fire at every bar; the sell conditions fire at every
\* bar after the first against the close of the bar before it (the entry
\* price of a position opened there).
AlwaysBuy ==
  \A j \in 1..Len(df.Close) : check_buy_conditions(df, j, strategy).fired
AlwaysSell ==
  \A j \in 2..Len(df.Close) :
    check_sell_conditions(df, j, strategy, df.Close[j - 1]).fired

\* C7: on a series where the buy condition and the sell condition hold at
\* every bar, exactly one trade is appended per bar, alternating BUY, SELL,
\* BUY, ... from a BUY at the first bar, and the final value is returned.
C7_AlternatesEveryBar ==
  (prog = "backtester" /\ pc = "returned" /\ AlwaysBuy /\ AlwaysSell)
    => /\ Len(trades) = Len(df.Close)
       /\ \A k \in 1..Len(trades) :
            /\ trades[k].date = k
            /\ trades[k].type = IF k % 2 = 1 THEN "BUY" ELSE "SELL"
       /\ final_value = Last(portfolio_value)

\* C7 happens: such a run over at least rolling_window bars returned.
C7_Witness ==
  /\ prog = "backtester" /\ pc = "returned" /\ AlwaysBuy /\ AlwaysSell
  /\ Len(df.Close) >= rolling_window
  /\ Len(trades) = Len(df.Close)
  /\ Last(trades).type = "SELL"

\* C8: backtest_strategy starts FLAT with cash = initial_capital and
\* shares = 0, and when no buy fires at the first bar the portfolio value
\* recorded for it is initial_capital.
C8_InitialState ==
  /\ (InLoop /\ i = 0)
       => /\ cash = strategy.initial_capital /\ shares = 0 /\ ~in_position
          /\ trades = <<>> /\ portfolio_value = <<>>
  /\ (InBacktest /\ i >= 1 /\ ~check_buy_conditions(df, 1, strategy).fired)
       => portfolio_value[1] = strategy.initial_capital

\* C8 happens: the first bar was processed with buy conditions none of which
\* fired.
C8_Witness ==
  /\ InLoop /\ i = 1 /\ strategy.buy_conditions # <<>>
  /\ ~check_buy_conditions(df, 1, strategy).fired
  /\ portfolio_value = << strategy.initial_capital >>

NotFired == [fired |-> FALSE, reason |-> NoReason]

FiringBuys(date) ==
  { k \in 1..Len(strategy.buy_conditions) :
      buy_condition(strategy.buy_conditions[k], df, date).fired }
FiringSells(date, entry) ==
  { k \in 1..Len(strategy.sell_conditions) :
      sell_condition(strategy.sell_conditions[k], df, date, entry).fired }

\* C9: check_buy_conditions and check_sell_conditions return True iff at
\* least one condition of their list fires, with the reason of the earliest
\* one in declared order, and (False, None) iff none fires.
C9_FirstFiringCondition ==
  (prog = "backtester" /\ pc = "parsed")
    => \A date \in 1..Len(df.Close) :
         /\ LET r == check_buy_conditions(df, date, strategy)
                F == FiringBuys(date)
            IN  /\ r.fired <=> F # {}
                /\ F # {} => r = buy_condition(strategy.buy_conditions[Least(F)], df, date)
                /\ F = {} => r = NotFired
         /\ \A entry \in Prices :
              LET r == check_sell_conditions(df, date, strategy, entry)
                  F == FiringSells(date, entry)
              IN  /\ r.fired <=> F # {}
                  /\ F # {} => r = sell_condition(strategy.sell_conditions[Least(F)],
                                                  df, date, entry)
                  /\ F = {} => r = NotFired

\* C9 happens: two sell conditions fire at the same bar with different
\* reasons and the first one's is returned, and at another bar only the
\* second one fires.
C9_Witness ==
  /\ prog = "backtester" /\ pc = "parsed"
  /\ Len(strategy.sell_conditions) >= 2
  /\ \E date \in 1..Len(df.Close), entry \in Prices :
       LET c1 == sell_condition(strategy.sell_conditions[1], df, date, entry)
           c2 == sell_condition(strategy.sell_conditions[2], df, date, entry)
       IN  /\ c1.fired /\ c2.fired /\ c1.reason # c2.reason
           /\ check_sell_conditions(df, date, strategy, entry).reason = c1.reason
  /\ \E date \in 1..Len(df.Close), entry \in Prices :
       /\ FiringSells(date, entry) = {2}
       /\ check_sell_conditions(df, date, strategy, entry).fired

\* C10: when price retrieval yields None or an empty frame, the backtester's
\* main exits without calling parse_strategy or backtest_strategy, and
\* run_all_tests returns an empty list without calling any test_* method.
C10_NoData ==
  /\ (prog = "backtester" /\ pc # "main" /\ (df.isNone \/ df.Close = <<>>))
       => /\ pc \in {"fetched", "exit_no_data"}
          /\ pc = "fetched" => ENABLED main_no_data
          /\ calls = << "get_stock_data" >>
          /\ trades = <<>> /\ portfolio_value = <<>>
  /\ (prog = "tester" /\ pc # "main" /\ (data.isNone \/ data.Close = <<>>))
       => /\ pc \in {"fetch_false", "returned"}
          /\ pc = "fetch_false" => ENABLED run_all_tests_no_data
          /\ calls = << "fetch_data" >>
          /\ tests = <<>>

\* C10 happens: main exited on an empty frame.
C10_Witness ==
  /\ prog = "backtester" /\ pc = "exit_no_data"
  /\ ~df.isNone /\ df.Close = <<>>
  /\ calls = << "get_stock_data" >>

\* The run of the tester got its data and ran the tests.
TestsRun == prog = "tester" /\ pc = "returned" /\ Len(calls) > 1

Theories ==
  << "Efficient Market Hypothesis", "Momentum Theory", "Mean Reversion",
     "Value Investing", "Technical Analysis" >>

TheoriesOf(ts) == [k \in 1..Len(ts) |-> ts[k].theory]

RECURSIVE Without(_, _)
Without(names, omitted) ==
  IF names = <<>> THEN <<>>
  ELSE IF Head(names) \in omitted THEN Without(Tail(names), omitted)
       ELSE <<Head(names)>> \o Without(Tail(names), omitted)

TheorySet == { Theories[k] : k \in 1..Len(Theories) }

\* A theory lacks data, as the claim lists it: no forward P/E, fewer than 12
\* monthly observations, an indicator short of its window (the 20-bar
\* z-score, the 200-bar moving average).
LacksData(name) ==
  CASE name = "Momentum Theory" -> data.months - 1 < 12
    [] name = "Mean Reversion" -> Len(data.Close) < 20
    [] name = "Value Investing" -> ~info.hasForwardPE
    [] name = "Technical Analysis" -> Len(data.Close) < 200
    [] OTHER -> FALSE

\* A theory returns an error: momentum with fewer than 12 monthly returns,
\* value with no forward P/E.
ReturnsError(name) ==
  CASE name = "Momentum Theory" -> data.months - 1 < 12
    [] name = "Value Investing" -> ~info.hasForwardPE
    [] OTHER -> FALSE

C12_InterpretationPriority ==
  (prog = "get_technical_interpretation" /\ pc = "returned")
    => /\ interpretation.tester =
            CASE signals.oversold -> "Oversold - potential buy signal"
              [] ~signals.oversold /\ signals.overbought ->
                   "Overbought - potential sell signal"
              [] ~signals.oversold /\ ~signals.overbought
                   /\ signals.golden_cross /\ signals.price_above_mas ->
                   "Bullish trend - golden cross"
              [] ~signals.oversold /\ ~signals.overbought
                   /\ ~signals.golden_cross /\ ~signals.price_above_mas ->
                   "Bearish trend - below MAs"
              [] OTHER -> "Neutral technical position"
       /\ interpretation.visualizer = interpretation.tester

\* C12 happens: the four booleans all true, and oversold won.
C12_Witness ==
  /\ prog = "get_technical_interpretation" /\ pc = "returned"
  /\ signals.oversold /\ signals.overbought
  /\ signals.golden_cross /\ signals.price_above_mas
  /\ interpretation.tester = "Oversold - potential buy signal"
  /\ interpretation.visualizer = "Oversold - potential buy signal"

\* The verdict of a theory in the list run_all_tests returned.
VerdictOf(name) == tests[CHOOSE k \in 1..Len(tests) : tests[k].theory = name]
IsZero(r) == ~r.nan /\ r.num = 0

\* C13 as stated: on a series with no bar of z > 2 and none of z < -2,
\* test_mean_reversion reports the buckets as "insufficient samples", which
\* a computed forward return of 0 cannot be taken for, and shows_reversion is
\* false; shows_reversion is never true when either bucket is empty.
C13_InsufficientSamples ==
  TestsRun =>
    LET v == VerdictOf("Mean Reversion")
        high == high_bucket(data.Close)
        low == low_bucket(data.Close)
    IN  /\ high = {} => ~IsZero(v.reversion_after_high)
        /\ low = {} => ~IsZero(v.reversion_after_low)
        /\ (high = {} \/ low = {}) => ~v.shows_reversion

\* C13, amended: on such a series test_mean_reversion reports the number 0
\* for each empty bucket, as it does for a computed forward return of 0, and
\* shows_reversion is false; shows_reversion is never true when either
\* bucket is empty.
C13_EmptyBucketIsZero ==
  TestsRun =>
    LET v == VerdictOf("Mean Reversion")
        high == high_bucket(data.Close)
        low == low_bucket(data.Close)
    IN  /\ high = {} => IsZero(v.reversion_after_high)
        /\ low = {} => IsZero(v.reversion_after_low)
        /\ (high = {} \/ low = {}) => (~v.shows_reversion /\ ~v.makes_sense)

\* C13 happens: thirty unchanged closes, no bar in either bucket, 0 reported
\* for both.
C13_Witness ==
  /\ TestsRun /\ Len(data.Close) >= 25
  /\ high_bucket(data.Close) = {} /\ low_bucket(data.Close) = {}
  /\ IsZero(VerdictOf("Mean Reversion").reversion_after_high)
  /\ IsZero(VerdictOf("Mean Reversion").reversion_after_low)
  /\ ~VerdictOf("Mean Reversion").shows_reversion

Parsed == prog = "parse_strategy" /\ pc = "parsed"

\* The kinds of a condition list, in the order of the list.
Kinds(conds) == [k \in 1..Len(conds) |-> conds[k].type]
BuyOrder == << "dip", "rsi_below", "price_below" >>
SellOrder == << "rise", "rsi_above", "price_above" >>
\* The place of a kind in the source order of its families.
Rank(order, kind) == CHOOSE r \in 1..Len(order) : order[r] = kind
InSourceOrder(conds, order) ==
  \A j, k \in 1..Len(conds) :
    j < k => Rank(order, conds[j].type) < Rank(order, conds[k].type)

\* C15 as stated: parse_strategy extracts at most one buy condition and at
\* most one sell condition, whatever the text.
C15_AtMostOneCondition ==
  Parsed => (Len(strategy.buy_conditions) <= 1 /\ Len(strategy.sell_conditions) <= 1)

\* C15, amended: parse_strategy extracts at most one condition of each kind;
\* the conditions of a list are in source order (dip, rsi, price for buys;
\* rise, rsi, price for sells); rsi_below and price_below never come
\* together, so a text yields at most two buy and at most three sell
\* conditions.
C15_AtMostOnePerFamily ==
  Parsed =>
    /\ \A k \in 1..Len(strategy.buy_conditions) :
         strategy.buy_conditions[k].type \in { BuyOrder[r] : r \in 1..3 }
    /\ \A k \in 1..Len(strategy.sell_conditions) :
         strategy.sell_conditions[k].type \in { SellOrder[r] : r \in 1..3 }
    /\ InSourceOrder(strategy.buy_conditions, BuyOrder)
    /\ InSourceOrder(strategy.sell_conditions, SellOrder)
    /\ ~(\E j, k \in 1..Len(strategy.buy_conditions) :
           /\ strategy.buy_conditions[j].type = "rsi_below"
           /\ strategy.buy_conditions[k].type = "price_below")
    /\ Len(strategy.buy_conditions) <= 2
    /\ Len(strategy.sell_conditions) <= 3

\* C15 happens: a text of the dip family and of the rsi family gives two buy
\* conditions, and one of the rise family and of the rsi family two sell
\* conditions.
C15_Witness ==
  /\ Parsed
  /\ \/ Kinds(strategy.buy_conditions) = << "dip", "rsi_below" >>
     \/ Kinds(strategy.buy_conditions) = << "dip", "price_below" >>
  /\ Len(strategy.sell_conditions) >= 1

\* The places of strategy_text where a numeral follows the word w, and those
\* where the word w follows a numeral.
Before(w) == { k \in Positions(strategy_text, w) : IsNum(strategy_text, k + 1) }
After(w) == { k \in Positions(strategy_text, w) : IsNum(strategy_text, k - 1) }

\* A text like "Buy when RSI below N, sell when RSI above M, K starting
\* capital": one "below N" and one "above M", both after the first "rsi", one
\* "K capital", and no word of the dip or of the rise family.
RsiText ==
  /\ Has(strategy_text, "rsi")
  /\ Cardinality(Positions(strategy_text, "below")) = 1
  /\ Cardinality(Positions(strategy_text, "above")) = 1
  /\ Before("below") # {} /\ Before("above") # {}
  /\ Find(strategy_text, "rsi") < Find(strategy_text, "below")
  /\ Find(strategy_text, "rsi") < Find(strategy_text, "above")
  /\ Cardinality(After("capital")) = 1
  /\ ~Has(strategy_text, "drops") /\ ~Has(strategy_text, "rises")

\* C16: on a text where "rsi" precedes "below N" and "above M" and a numeral
\* K is followed by a capital keyword, parse_strategy yields exactly
\* [rsi_below(N)], [rsi_above(M)] and initial_capital = K.
C16_RsiStrategy ==
  (Parsed /\ RsiText) =>
    LET N == strategy_text[Find(strategy_text, "below") + 1].n
        M == strategy_text[Find(strategy_text, "above") + 1].n
        K == strategy_text[Least(After("capital")) - 1].n
    IN  /\ strategy.buy_conditions = << [type |-> "rsi_below", value |-> N] >>
        /\ strategy.sell_conditions = << [type |-> "rsi_above", value |-> M] >>
        /\ strategy.initial_capital = K

\* C16 happens: "rsi below 5 above 10 20 capital" has been parsed, with the
\* capital different from both levels.
C16_Witness ==
  /\ Parsed /\ RsiText
  /\ strategy_text = << Word("rsi"), Word("below"), Num(5), Word("above"), Num(10),
                        Num(20), Word("capital") >>
  /\ strategy.initial_capital = 20

\* The percentages that directly follow the word w in strategy_text:
\* "<w> <p> percent".
OwnPercentages(w) ==
  { strategy_text[k + 1].n :
      k \in { j \in Positions(strategy_text, w) :
                /\ IsNum(strategy_text, j + 1)
                /\ j + 2 <= Len(strategy_text)
                /\ strategy_text[j + 2].word = "percent" } }

\* C17: on a text with a dip keyword and its percentage p1 and a rise
\* keyword and a different percentage p2, as in "Buy when price drops 5
\* percent, sell when it rises 10 percent", parse_strategy yields dip(p1) to
\* buy and rise(p2) to sell.
C17_OwnPercentage ==
  Parsed =>
    \A p1 \in OwnPercentages("drops"), p2 \in OwnPercentages("rises") :
      (/\ p1 # p2 /\ p1 # 0 /\ p2 # 0
       /\ Cardinality(OwnPercentages("drops")) = 1
       /\ Cardinality(OwnPercentages("rises")) = 1)
      => /\ strategy.buy_conditions = << [type |-> "dip", percent |-> p1] >>
         /\ strategy.sell_conditions = << [type |-> "rise", percent |-> p2] >>

\* C18: whatever the text, the strategy parse_strategy returns has
\* initial_capital > 0: 10000 by default, otherwise the numeral followed by a
\* capital keyword.
C18_PositiveCapital ==
  Parsed =>
    /\ strategy.initial_capital > 0
    /\ strategy.initial_capital =
         IF After("capital") = {} THEN default_capital
         ELSE strategy_text[Least(After("capital")) - 1].n

\* The purchase of backtest_strategy has just been made, in floats.
Bought == prog = "backtest_strategy" /\ in_position /\ Len(trades) = 1

\* C19: with positive closes and a positive initial capital, cash >= 0 and
\* shares >= 0 in every state of backtest_strategy, and right after a BUY
\* the cash that remains is less than the close of that bar.
C19_CashWithinBar ==
  /\ prog = "backtest_strategy" => (cash >= 0 /\ shares >= 0)
  /\ Bought => cash < entry_price

\* The bars of the period ending at bar k of df at which the close rose,
\* and those at which it fell.
Rises(k) == { j \in (k - period + 1)..k : j > 1 /\ df.Close[j] > df.Close[j - 1] }
Falls(k) == { j \in (k - period + 1)..k : j > 1 /\ df.Close[j] < df.Close[j - 1] }
AllGains(k) == k >= period /\ Rises(k) # {} /\ Falls(k) = {}

\* C20: where calculate_rsi is defined it lies in [0, 100]; over a period
\* with a gain and no loss it is exactly 100, so that rsi_above(v) with
\* v < 100 fires and rsi_below(v) with v <= 100 does not.
C20_RsiRange ==
  /\ (prog = "calculate_rsi" /\ pc = "returned") =>
       /\ Len(rsi_result) = Len(df.Close)
       /\ \A k \in 1..Len(rsi_result) :
            /\ ~rsi_result[k].nan =>
                 (RatioGE(rsi_result[k], 0) /\ ~RatioGT(rsi_result[k], 100))
            /\ AllGains(k) =>
                 (~rsi_result[k].nan /\ rsi_result[k].num = 100 * rsi_result[k].den)
  /\ (prog = "check_sell_conditions" /\ pc = "returned" /\ AllGains(i)) =>
       (strategy.sell_conditions[1].value < 100 => should_sell)
  /\ (prog = "check_buy_conditions" /\ pc = "returned" /\ AllGains(i)) =>
       (strategy.buy_conditions[1].value <= 100 => ~should_buy)

\* C20 happens: over a period with a rise and no fall, rsi_above(99) fires.
C20_Witness ==
  /\ prog = "check_sell_conditions" /\ pc = "returned"
  /\ AllGains(i)
  /\ strategy.sell_conditions[1].value = 99
  /\ should_sell

\* C21: when a buy condition fires while FLAT and cash < close, the
\* position is opened all the same: a BUY of 0 shares is appended, cash is
\* unchanged, in_position becomes true with entry_price = close; while that
\* position is open a bar appends nothing but a SELL, which records 0 shares
\* and leaves cash unchanged.
C21_ZeroSharePosition ==
  [][ /\ (AtBar /\ ~in_position /\ cash < df.Close[i + 1]
          /\ check_buy_conditions(df, i + 1, strategy).fired)
        => /\ shares' = 0 /\ cash' = cash
           /\ in_position' = TRUE
           /\ entry_price' = df.Close[i + 1]
           /\ trades' = Append(trades,
                Trade(i + 1, "BUY", df.Close[i + 1], 0,
                      check_buy_conditions(df, i + 1, strategy).reason))
      /\ (AtBar /\ in_position /\ shares = 0)
        => LET r == check_sell_conditions(df, i + 1, strategy, entry_price)
           IN  /\ cash' = cash /\ shares' = 0
               /\ IF r.fired
                  THEN /\ in_position' = FALSE
                       /\ trades' = Append(trades,
                            Trade(i + 1, "SELL", df.Close[i + 1], 0, r.reason))
                  ELSE UNCHANGED << in_position, trades, entry_price >> ]_vars

\* C21 happens: with a positive capital smaller than the close, a position
\* of 0 shares was opened and later sold, and the cash is the capital.
C21_Witness ==
  /\ InLoop /\ ~in_position /\ Len(trades) = 2
  /\ strategy.initial_capital > 0
  /\ trades[1].type = "BUY" /\ trades[1].shares = 0
  /\ trades[1].price > strategy.initial_capital
  /\ trades[2].type = "SELL" /\ trades[2].shares = 0
  /\ cash = strategy.initial_capital

\* The buy list holds dip conditions only.
DipOnly ==
  /\ strategy.buy_conditions # <<>>
  /\ \A k \in 1..Len(strategy.buy_conditions) : strategy.buy_conditions[k].type = "dip"

\* The highest close of the rolling_window bars that end at bar date.
HighOfWindow(date) ==
  Greatest({ df.Close[j] : j \in (date - rolling_window + 1)..date })

\* The drop of the close of bar date from the highest close of the bars
\* first..date is at least percent.
DroppedFrom(first, date, percent) ==
  LET high == Greatest({ df.Close[j] : j \in first..date })
  IN  (high - df.Close[date]) * 100 >= percent * high

\* C22: a dip condition does not fire at a bar with fewer than 20 bars of
\* history, so that a dip-only buy list buys at none of the first 19 bars;
\* from the 20th bar on it fires iff
\* (max of the last 20 closes - close) / max * 100 >= percent.
C22_DipNeedsFullWindow ==
  (InBacktest /\ i >= 1 /\ DipOnly) =>
    /\ \A k \in 1..Len(strategy.buy_conditions) :
         buy_condition(strategy.buy_conditions[k], df, i).fired
           <=> /\ i >= rolling_window
               /\ DroppedFrom(i - rolling_window + 1, i,
                              strategy.buy_conditions[k].percent)
    /\ \A k \in 1..Len(trades) :
         trades[k].type = "BUY" => trades[k].date >= rolling_window

\* C22 happens: the 19th close had dropped enough from the closes before it
\* and nothing was bought there; the 20th bar, a full window, bought.
C22_Witness ==
  /\ InBacktest /\ DipOnly /\ i = rolling_window
  /\ DroppedFrom(1, rolling_window - 1, strategy.buy_conditions[1].percent)
  /\ Len(trades) = 1
  /\ trades[1].type = "BUY" /\ trades[1].date = rolling_window

\* C23: in every state of backtest_strategy the trade log alternates BUY,
\* SELL, BUY, ... from a BUY, with strictly increasing dates; the simulator
\* is LONG iff the last trade is a BUY; shares = 0 whenever FLAT;
\* entry_price is the price of the last BUY whenever LONG; each SELL
\* records the share count of the BUY before it.
C23_TradeLogAlternates ==
  InBacktest =>
    /\ \A k \in 1..Len(trades) :
         trades[k].type = IF k % 2 = 1 THEN "BUY" ELSE "SELL"
    /\ \A k \in 1..(Len(trades) - 1) : trades[k].date < trades[k + 1].date
    /\ in_position <=> (trades # <<>> /\ Last(trades).type = "BUY")
    /\ Cardinality({ k \in 1..Len(trades) : trades[k].type = "BUY" })
         - Cardinality({ k \in 1..Len(trades) : trades[k].type = "SELL" })
         = IF in_position THEN 1 ELSE 0
    /\ ~in_position => shares = 0
    /\ in_position => (entry_price = Last(trades).price /\ shares = Last(trades).shares)
    /\ \A k \in 2..Len(trades) :
         trades[k].type = "SELL" => trades[k].shares = trades[k - 1].shares

\* C23 happens: a BUY, the SELL of its shares, and a second BUY at another
\* price, still open.
C23_Witness ==
  /\ InLoop /\ in_position /\ Len(trades) = 3
  /\ trades[2].shares > 0
  /\ trades[3].price # trades[1].price
  /\ entry_price = trades[3].price

\* C24: a trade does not change the portfolio value of its bar. The value a
\* bar records is the cash and the shares held before the bar at the close
\* of the bar (at a BUY bar the cash held before the buy, at a SELL bar
\* cash_before + shares_before * close), and it is cash + shares * close of
\* the state after the bar; a bar entered FLAT records the cash, the same
\* value as the bar before it.
C24_TradeKeepsValue ==
  [][ AtBar
      => LET close == df.Close[i + 1]
         IN  /\ portfolio_value' = Append(portfolio_value, cash + shares * close)
             /\ Last(portfolio_value') = cash' + shares' * close
             /\ ~in_position =>
                  /\ Last(portfolio_value') = cash
                  /\ i = 0 => Last(portfolio_value') = strategy.initial_capital
                  /\ i >= 1 => Last(portfolio_value') = Last(portfolio_value)
             /\ ~in_position' => Last(portfolio_value') = cash' ]_vars

\* C24 happens: shares were bought at a bar that recorded the cash held
\* before it, sold at another price, and a bar has passed FLAT since.
C24_Witness ==
  /\ InLoop /\ ~in_position /\ Len(trades) = 2
  /\ trades[1].shares > 0
  /\ portfolio_value[trades[1].date] = strategy.initial_capital
  /\ trades[2].price # trades[1].price
  /\ portfolio_value[trades[2].date] # strategy.initial_capital
  /\ trades[2].date < i
  /\ portfolio_value[i] = cash /\ portfolio_value[i] = portfolio_value[i - 1]

====
